---- MODULE Spec2Model ----
(***************************************************************************)
(* Model of wl-snippets.py: a GTK picker that filters a list of snippet    *)
(* files by a fuzzy query, copies the selected one to the clipboard via    *)
(* wl-copy (falling back to xclip) and closes the window 600ms later.      *)
(*                                                                         *)
(* Strings are sequences of one-character strings.  The GLib main loop is  *)
(* modelled by the variables timers and loop: a timeout source holds the   *)
(* time left until it is due and is ready once that is 0, ready sources    *)
(* are dispatched in the order they were attached, and after               *)
(* Gtk.main_quit the sources that were already ready in the current        *)
(* iteration may still be dispatched before Gtk.main() returns.            *)
(***************************************************************************)
EXTENDS Integers, Sequences, FiniteSets, TLC

VARIABLES list_store, search_text, filter_store, selection, status,
          timers, loop, destroyed, destroyCalls, highlight,
          clipboard, confirms, ev, matcher, proc

vars == <<list_store, search_text, filter_store, selection, status,
          timers, loop, destroyed, destroyCalls, highlight,
          clipboard, confirms, ev, matcher, proc>>

\* everything except the bookkeeping variable ev
progVars == <<list_store, search_text, filter_store, selection, status,
              timers, loop, destroyed, destroyCalls, highlight,
              clipboard, confirms>>

----------------------------------------------------------------------------
\* Bounds of the model

MaxQueryLen == 2
MaxNameLen == 3
MaxConfirms == 2
TickMs == 300

\* Program constants
FeedbackMs == 300
CloseMs == 600

QueryChars == {"a", "B"}

\* "no row selected" (treeiter is None)
None == 0

\* Queries the user can type: all strings over QueryChars up to MaxQueryLen
Queries == UNION {[1..n -> QueryChars] : n \in 0..MaxQueryLen}

\* Relative paths found by os.walk, in traversal order (files of a directory
\* sorted), for a few snippet directories
SnippetDirs ==
    { <<>>,
      << <<"A", "_", "b">>, <<"b">>, <<"b", "a">> >> }

----------------------------------------------------------------------------
\* Status bar messages (the message on top of the status bar stack)

Msg(k, n, nm) == [kind |-> k, n |-> n, name |-> nm]

\* Outcomes of subprocess.Popen(...) followed by process.communicate(...):
\*   "ok"       the process was spawned and took the content
\*   "rejected" the process was spawned but exited with an error or closed
\*              its stdin; communicate() ignores the broken pipe and the
\*              return code is never looked at, so the call returns normally
\*   "absent"   Popen raises FileNotFoundError
\*   "error"    Popen/communicate raise another exception (PermissionError..)
ProviderOutcomes == {"ok", "rejected", "absent", "error"}
ReadOutcomes == {"ok", "fail"}

Returned(o) == o \in {"ok", "rejected"}

----------------------------------------------------------------------------
\* str.lower() on one character and on a string

LowerChar(c) == CASE c = "A" -> "a"
                  [] c = "B" -> "b"
                  [] OTHER -> c

Lower(s) == [i \in 1..Len(s) |-> LowerChar(s[i])]

\* `search_text in snippet_name'
IsSubstring(q, n) ==
    \E k \in 0..(Len(n) - Len(q)) : \A i \in 1..Len(q) : n[k + i] = q[i]

\* the while loop of filter_function (0-based i, j as in the code)
RECURSIVE FuzzyLoop(_, _, _, _)
FuzzyLoop(q, n, i, j) ==
    IF i < Len(q) /\ j < Len(n)
    THEN FuzzyLoop(q, n, IF q[i + 1] = n[j + 1] THEN i + 1 ELSE i, j + 1)
    ELSE i = Len(q)

\* variant: the name is compared without being lower-cased
filter_function_NameAsIs(text, name) ==
    LET st == Lower(text)
    IN  IF st = <<>> THEN TRUE
        ELSE IF IsSubstring(st, name) THEN TRUE
        ELSE FuzzyLoop(st, name, 0, 0)

filter_function(text, name) ==
    LET st == Lower(text)
        sn == Lower(name)
    IN  IF st = <<>> THEN TRUE
        ELSE IF IsSubstring(st, sn) THEN TRUE
        ELSE FuzzyLoop(st, sn, 0, 0)

\* one isolated call of filter_function: the search text, the name of the
\* row, whether the call has returned and its result
MatcherCall(q, n, done, res) == [q |-> q, n |-> n, done |-> done, res |-> res]

NotCalled == MatcherCall(<<>>, <<>>, FALSE, FALSE)

\* characters of search texts and names in the isolated calls
MatchChars == {"a", "b", "A", "_"}

Strings(chars, maxLen) == UNION {[1..n -> chars] : n \in 0..maxLen}

\* filter_store.refilter(): the visible function is applied to every row of
\* the list store in order; the visible rows keep the store's order
RECURSIVE RefilterFrom(_, _, _)
RefilterFrom(store, text, k) ==
    IF k > Len(store) THEN <<>>
    ELSE IF filter_function(text, store[k].name)
         THEN <<k>> \o RefilterFrom(store, text, k + 1)
         ELSE RefilterFrom(store, text, k + 1)

\* variant: the visible rows come out in reverse order
Refilter_Reversed(store, text) ==
    LET fs == RefilterFrom(store, text, 1)
    IN  [i \in 1..Len(fs) |-> fs[Len(fs) + 1 - i]]

Refilter(store, text) == RefilterFrom(store, text, 1)

Visible(fs) == {fs[i] : i \in 1..Len(fs)}

----------------------------------------------------------------------------
\* load_snippets: one row [full path, relative path] per file

Root == <<"/">>

load_snippets(names) ==
    [i \in 1..Len(names) |-> [path |-> Root \o names[i], name |-> names[i]]]

\* what open(path).read() returns: the content is identified by the path
FileContent(path) == path

\* ev records the handler that ran last: which one, whether a row was
\* selected when it started, the calls it made with their outcomes, whether
\* it emitted a feedback pulse and how many close timers it scheduled;
\* again: on_search_changed ran twice in a row for the same text
Event(op, hadSel, rd, wl, xc, fb, closes) ==
    [op |-> op, hadSel |-> hadSel, read |-> rd, wl |-> wl, xclip |-> xc,
     fb |-> fb, closes |-> closes, again |-> FALSE]

NoCalls(op) == Event(op, FALSE, "none", "none", "none", FALSE, 0)

\* the process running main(): where it is, whether the snippets directory
\* exists, its exit status, whether the error was printed and whether the
\* window was constructed
Proc(pc, isdir, exit, printed, window) ==
    [pc |-> pc, isdir |-> isdir, exit |-> exit, printed |-> printed,
     window |-> window]

\* in Gtk.main() with the window constructed
InMainLoop(isdir) == Proc("loop", isdir, 0, FALSE, TRUE)

\* the window after WlSnippets.__init__
WindowInit ==
    /\ \E names \in SnippetDirs : list_store = load_snippets(names)
    /\ search_text = <<>>
    /\ filter_store = [i \in 1..Len(list_store) |-> i]
    /\ selection = None
    /\ status = Msg("Loaded", Len(list_store), <<>>)
    /\ timers = <<>>
    /\ loop = "running"
    /\ destroyed = FALSE
    /\ destroyCalls = 0
    /\ highlight = 0
    /\ clipboard = <<>>
    /\ confirms = 0
    /\ ev = NoCalls("init")
    /\ matcher = NotCalled

Init == WindowInit /\ proc = InMainLoop(TRUE)

----------------------------------------------------------------------------
\* on_search_changed, with the selection-changed callback it triggers.
\* emit: whether GTK emits "changed" when set_cursor re-selects the row
\* that is already selected.

AfterSetCursor(sel, first, emit, st) ==
    IF sel # first \/ emit
    THEN Msg("Selected", 0, list_store[first].name)
    ELSE st

\* variant: the number of visible rows is reported for the empty text too
on_search_changed_status_AnyText(q, sel, fs, emit) ==
    IF Len(fs) > 0
    THEN Msg("Found", Len(fs), <<>>)
    ELSE Msg("No matching", 0, <<>>)

on_search_changed_status(q, sel, fs, emit) ==
    IF Len(fs) > 0
    THEN IF q # <<>>
         THEN Msg("Found", Len(fs), <<>>)
         ELSE AfterSetCursor(sel, fs[1], emit, status)
    ELSE IF q # <<>>
         THEN Msg("No matching", 0, <<>>)
         ELSE status

\* the choice of emit only matters when the row stays selected and no
\* "Found" message follows
EmitChoices(q, sel, fs) ==
    IF Len(fs) > 0 /\ q = <<>> /\ sel = fs[1] THEN BOOLEAN ELSE {FALSE}

\* variant: set_cursor on the row that is already selected unselects it
on_search_changed_cursor_Toggle(fs) ==
    IF Len(fs) > 0
    THEN IF selection = fs[1] THEN None ELSE fs[1]
    ELSE None

\* variant: set_cursor is left out, the selection stays where it was
on_search_changed_cursor_Kept(fs) ==
    IF selection \in Visible(fs) THEN selection ELSE None

on_search_changed_cursor(fs) == IF Len(fs) > 0 THEN fs[1] ELSE None

SearchChanged ==
    /\ loop = "running"
    /\ \E q \in Queries :
         LET fs == Refilter(list_store, q)
             sel == IF selection \in Visible(fs) THEN selection ELSE None
         IN  \E emit \in EmitChoices(q, sel, fs) :
             /\ search_text' = q
             /\ filter_store' = fs
             /\ selection' = on_search_changed_cursor(fs)
             /\ status' = on_search_changed_status(q, sel, fs, emit)
             /\ ev' = [NoCalls("search") EXCEPT
                         !.again = (ev.op = "search" /\ q = search_text)]
    /\ UNCHANGED <<matcher, proc, list_store, timers, loop, destroyed, destroyCalls,
                   highlight, clipboard, confirms>>

\* the user moves the selection to another visible row (arrow keys, click);
\* on_selection_changed reports it
on_selection_changed(row) == Msg("Selected", 0, list_store[row].name)

Navigate ==
    /\ loop = "running"
    /\ \E row \in Visible(filter_store) :
         /\ row # selection
         /\ selection' = row
         /\ status' = on_selection_changed(row)
    /\ ev' = NoCalls("navigate")
    /\ UNCHANGED <<matcher, proc, list_store, search_text, filter_store, timers, loop,
                   destroyed, destroyCalls, highlight, clipboard,
                   confirms>>

----------------------------------------------------------------------------
\* copy_selected_snippet

\* a timeout source: its callback and the time left until it is due
Timer(kind, left) == [kind |-> kind, left |-> left]

\* the part of the window state a handler may change
Cur == [status |-> status, timers |-> timers, highlight |-> highlight,
        clipboard |-> clipboard,
        read |-> "none", wl |-> "none", xclip |-> "none"]

\* provide_visual_feedback: a CSS provider is added to the tree view and a
\* 300ms timer is scheduled that removes it
provide_visual_feedback(s) ==
    IF selection = None THEN s
    ELSE [s EXCEPT !.highlight = @ + 1,
                   !.timers = Append(@, Timer("revert", FeedbackMs))]

\* GLib.timeout_add(600, self.destroy)
ScheduleClose(s) ==
    [s EXCEPT !.timers = Append(@, Timer("close", CloseMs))]

\* variant: the exception handler reports the error but schedules no close
OnException_NoClose(s) ==
    [s EXCEPT !.status = Msg("Error", 0, <<>>)]

\* except Exception as e: status and delayed close
OnException(s) ==
    ScheduleClose([s EXCEPT !.status = Msg("Error", 0, <<>>)])

\* Popen + communicate of one provider: the clipboard holds the content
\* only if the provider took it
RunProvider(s, o, content) ==
    IF o = "ok" THEN [s EXCEPT !.clipboard = content] ELSE s

\* variant: xclip is run whatever wl-copy did
FallsBackToXclip_Always(wl) == TRUE

\* `except FileNotFoundError' around the wl-copy attempt
FallsBackToXclip(wl) == wl = "absent"

\* an exception leaves the inner try blocks
Raises(wl, xc) ==
    \/ wl = "error"
    \/ FallsBackToXclip(wl) /\ xc = "error"

copy_success(wl, xc) ==
    \/ Returned(wl)
    \/ FallsBackToXclip(wl) /\ Returned(xc)

\* the body of the outer try once the file has been read
Dispatch(s, row, wl, xc) ==
    LET content == FileContent(list_store[row].path)
        s0 == [s EXCEPT !.wl = wl,
                        !.xclip = IF FallsBackToXclip(wl) THEN xc ELSE "none"]
        s1 == RunProvider(s0, wl, content)
        s2 == IF FallsBackToXclip(wl) THEN RunProvider(s1, xc, content) ELSE s1
        s3 == IF FallsBackToXclip(wl) /\ xc = "absent"
              THEN [s2 EXCEPT !.status = Msg("Error neither", 0, <<>>)]
              ELSE s2
        s4 == IF copy_success(wl, xc)
              THEN provide_visual_feedback(
                     [s3 EXCEPT !.status =
                                  Msg("Copied", 0, list_store[row].name)])
              ELSE s3
    IN  IF Raises(wl, xc) THEN OnException(s2) ELSE ScheduleClose(s4)

\* variant: a failed read is not noticed
ReadOk_Unchecked(rd) == TRUE

\* open(snippet_path).read() raised no exception
ReadOk(rd) == rd = "ok"

CopyBody(row, rd, wl, xc) ==
    LET s == [Cur EXCEPT !.read = rd]
    IN  IF ReadOk(rd) THEN Dispatch(s, row, wl, xc) ELSE OnException(s)

\* variant: the row is looked up by position 1 of the list store instead
\* of through the selection of the filtered view
copy_selected_snippet_FirstRow(rd, wl, xc) ==
    IF selection # None THEN CopyBody(1, rd, wl, xc) ELSE Cur

\* variant: the close is scheduled even when no row is selected
copy_selected_snippet_Unguarded(rd, wl, xc) ==
    IF selection # None THEN CopyBody(selection, rd, wl, xc)
    ELSE ScheduleClose(Cur)

copy_selected_snippet(rd, wl, xc) ==
    IF selection # None THEN CopyBody(selection, rd, wl, xc) ELSE Cur

\* the outcomes of a provider call matter only on the paths that can
\* reach the call
OutcomesIf(reachable) == IF reachable THEN ProviderOutcomes ELSE {"ok"}

CloseTimers(ts) == {i \in 1..Len(ts) : ts[i].kind = "close"}

\* Enter in the search entry (on_select_snippet) or activation of a row
\* (on_snippet_activated)
Confirm ==
    /\ loop = "running"
    /\ selection # None => confirms < MaxConfirms
    /\ \E rd \in ReadOutcomes :
       \E wl \in OutcomesIf(rd = "ok") :
       \E xc \in OutcomesIf(rd = "ok" /\ wl = "absent") :
         LET r == copy_selected_snippet(rd, wl, xc)
         IN  /\ status' = r.status
             /\ timers' = r.timers
             /\ highlight' = r.highlight
             /\ clipboard' = r.clipboard
             /\ ev' = Event("confirm", selection # None, r.read, r.wl, r.xclip,
                            r.highlight > highlight,
                            Cardinality(CloseTimers(r.timers))
                              - Cardinality(CloseTimers(timers)))
    /\ confirms' = IF selection # None THEN confirms + 1 ELSE confirms
    /\ UNCHANGED <<matcher, proc, list_store, search_text, filter_store, selection, loop,
                   destroyed, destroyCalls>>

----------------------------------------------------------------------------
\* self.destroy(); the "destroy" signal is connected to Gtk.main_quit

MainQuit(l) == IF l = "running" THEN "quitting" ELSE l

Destroy ==
    /\ destroyed' = TRUE
    /\ destroyCalls' = destroyCalls + 1
    /\ loop' = MainQuit(loop)

\* variant: Escape closes through the delayed close instead of at once
Escape_Delayed ==
    /\ loop = "running"
    /\ timers' = Append(timers, Timer("close", CloseMs))
    /\ ev' = NoCalls("escape")
    /\ UNCHANGED <<matcher, proc, list_store, search_text, filter_store, selection,
                   status, loop, destroyed, destroyCalls, highlight,
                   clipboard, confirms>>

\* on_key_press with keyname Escape
Escape ==
    /\ loop = "running"
    /\ Destroy
    /\ ev' = NoCalls("escape")
    /\ UNCHANGED <<matcher, proc, list_store, search_text, filter_store, selection, status,
                   timers, highlight, clipboard, confirms>>

\* Timeout sources: ready ones are dispatched in the order of attachment
Ready(ts) == {i \in 1..Len(ts) : ts[i].left = 0}

FirstReady(ts) == CHOOSE i \in Ready(ts) : \A j \in Ready(ts) : i <= j

RemoveAt(ts, i) == SubSeq(ts, 1, i - 1) \o SubSeq(ts, i + 1, Len(ts))

\* remove_style, the callback of the 300ms timer
FireRevert ==
    /\ loop \in {"running", "quitting"}
    /\ Ready(timers) # {}
    /\ timers[FirstReady(timers)].kind = "revert"
    /\ timers' = RemoveAt(timers, FirstReady(timers))
    /\ highlight' = highlight - 1
    /\ ev' = NoCalls("revert")
    /\ UNCHANGED <<matcher, proc, list_store, search_text, filter_store, selection, status,
                   loop, destroyed, destroyCalls, clipboard,
                   confirms>>

\* self.destroy, the callback of the 600ms timer
FireClose ==
    /\ loop \in {"running", "quitting"}
    /\ Ready(timers) # {}
    /\ timers[FirstReady(timers)].kind = "close"
    /\ timers' = RemoveAt(timers, FirstReady(timers))
    /\ Destroy
    /\ ev' = NoCalls("close")
    /\ UNCHANGED <<matcher, proc, list_store, search_text, filter_store, selection, status,
                   highlight, clipboard, confirms>>

\* time passes while the main loop runs
Elapse(ts) ==
    [i \in 1..Len(ts) |->
       [ts[i] EXCEPT !.left = IF @ > TickMs THEN @ - TickMs ELSE 0]]

Tick ==
    /\ loop = "running"
    /\ \E i \in 1..Len(timers) : timers[i].left > 0
    /\ timers' = Elapse(timers)
    /\ ev' = NoCalls("tick")
    /\ UNCHANGED <<matcher, proc, list_store, search_text, filter_store, selection, status,
                   loop, destroyed, destroyCalls, highlight,
                   clipboard, confirms>>

\* Gtk.main() returns and main returns 0
LoopExit ==
    /\ loop = "quitting"
    /\ loop' = "exited"
    /\ proc' = [proc EXCEPT !.pc = "returned", !.exit = 0]
    /\ ev' = NoCalls("exit")
    /\ UNCHANGED <<matcher, list_store, search_text, filter_store, selection, status,
                   timers, destroyed, destroyCalls, highlight,
                   clipboard, confirms>>

Next ==
    \/ SearchChanged
    \/ Navigate
    \/ Confirm
    \/ Escape
    \/ FireRevert
    \/ FireClose
    \/ Tick
    \/ LoopExit

Spec == Init /\ [][Next]_vars

----------------------------------------------------------------------------
\* filter_function on its own: a row with an arbitrary name is tested
\* against an arbitrary search text

MatchInit ==
    /\ list_store = load_snippets(<<>>)
    /\ search_text = <<>>
    /\ filter_store = [i \in 1..Len(list_store) |-> i]
    /\ selection = None
    /\ status = Msg("Loaded", Len(list_store), <<>>)
    /\ timers = <<>>
    /\ loop = "running"
    /\ destroyed = FALSE
    /\ destroyCalls = 0
    /\ highlight = 0
    /\ clipboard = <<>>
    /\ confirms = 0
    /\ ev = NoCalls("init")
    /\ proc = InMainLoop(TRUE)
    /\ \E q \in Strings(MatchChars, MaxQueryLen), n \in Strings(MatchChars, MaxNameLen) :
         matcher = MatcherCall(q, n, FALSE, FALSE)

CallFilterFunction ==
    /\ ~matcher.done
    /\ matcher' = [matcher EXCEPT !.done = TRUE,
                                  !.res = filter_function(matcher.q, matcher.n)]
    /\ UNCHANGED <<progVars, ev, proc>>

MatchNext == CallFilterFunction

MatchSpec == MatchInit /\ [][MatchNext]_vars

----------------------------------------------------------------------------
\* main(), from the start of the process

NoStatus == Msg("", 0, <<>>)

MainInit ==
    /\ \E isdir \in BOOLEAN : proc = Proc("start", isdir, 0, FALSE, FALSE)
    /\ list_store = <<>>
    /\ search_text = <<>>
    /\ filter_store = <<>>
    /\ selection = None
    /\ status = NoStatus
    /\ timers = <<>>
    /\ loop = "not started"
    /\ destroyed = FALSE
    /\ destroyCalls = 0
    /\ highlight = 0
    /\ clipboard = <<>>
    /\ confirms = 0
    /\ ev = NoCalls("start")
    /\ matcher = NotCalled

\* variant: the directory is not checked
main_rejects_Never(isdir) == FALSE

\* `if not os.path.isdir(snippets_dir)'
main_rejects(isdir) == ~isdir

\* main up to Gtk.main(): the error and return 1, or the window
Main ==
    /\ proc.pc = "start"
    /\ IF main_rejects(proc.isdir)
       THEN /\ proc' = [proc EXCEPT !.pc = "returned", !.exit = 1,
                                    !.printed = TRUE]
            /\ ev' = NoCalls("main")
            /\ UNCHANGED <<progVars, matcher>>
       ELSE \* WlSnippets(snippets_dir): the state described by WindowInit
            /\ \E names \in SnippetDirs :
                 /\ list_store' = load_snippets(names)
                 /\ filter_store' = [i \in 1..Len(names) |-> i]
                 /\ status' = Msg("Loaded", Len(names), <<>>)
            /\ loop' = "running"
            /\ ev' = NoCalls("init")
            /\ proc' = InMainLoop(proc.isdir)
            /\ UNCHANGED <<search_text, selection, timers, destroyed,
                           destroyCalls, highlight, clipboard, confirms,
                           matcher>>

MainNext == Main \/ Next

MainSpec == MainInit /\ [][MainNext]_vars

\* scheduled timers eventually fire: time advances and ready timeout
\* sources are dispatched while the main loop runs
FairSpec ==
    Spec /\ WF_vars(Tick) /\ WF_vars(FireRevert) /\ WF_vars(FireClose)

TypeOK ==
    /\ selection \in 0..Len(list_store)
    /\ loop \in {"running", "quitting", "exited"}
    /\ destroyCalls \in Nat
    /\ highlight \in Int

----------------------------------------------------------------------------
\* Properties

\* the last handler was a confirm that found a selected row
Accepted == ev.op = "confirm" /\ ev.hadSel

\* some provider took the content in the last confirm
SomeProviderTook == ev.wl = "ok" \/ ev.xclip = "ok"

\* the file was read but no provider took its content
DispatchFailed == Accepted /\ ev.read = "ok" /\ ~SomeProviderTook

ErrorKinds == {"Error", "Error neither"}

\* C1: every confirm with a selected row schedules a close timer, whatever
\* the outcome of the read and of the providers, and with timers that
\* eventually fire the window is eventually destroyed.
ConfirmLeadsToClosing ==
    /\ [](Accepted => ev.closes = 1)
    /\ (Accepted ~> destroyed)

ClosedByTimerAfterConfirm ==
    ev.op = "close" /\ destroyed /\ confirms > 0 /\ destroyCalls = 1

\* C2: over any interleaving of confirm, query edit, Escape and timers the
\* window is destroyed at most once; a close timer that fires after the
\* window was destroyed does not destroy it again.
AtMostOneClose == destroyCalls <= 1

\* C3: when wl-copy fails for another reason than being absent, xclip is
\* still attempted.
ProviderFallthrough ==
    (Accepted /\ ev.wl \in {"error", "rejected"}) => ev.xclip # "none"

\* C4: xclip is invoked only after wl-copy was invoked and failed, never
\* after wl-copy succeeded; when wl-copy is absent and xclip succeeds the
\* status is "Copied: <name>" of the selected row, the content is on the
\* clipboard, the feedback pulse is emitted and the close is scheduled.
OrderedDispatch ==
    ev.op = "confirm" =>
      /\ ev.xclip # "none" => (ev.wl # "none" /\ ~Returned(ev.wl))
      /\ Returned(ev.wl) => ev.xclip = "none"
      /\ (ev.wl = "absent" /\ ev.xclip = "ok") =>
            /\ status = Msg("Copied", 0, list_store[selection].name)
            /\ clipboard = FileContent(list_store[selection].path)
            /\ ev.fb
            /\ ev.closes = 1

SecondProviderSucceeded ==
    ev.op = "confirm" /\ ev.wl = "absent" /\ ev.xclip = "ok"

\* C5: when no provider took the content the failure is in the status, no
\* feedback pulse is emitted and the close is scheduled; a feedback pulse
\* is emitted only if some provider took the content.
TotalFailureNoPulse ==
    ev.op = "confirm" =>
      /\ DispatchFailed =>
            (status.kind \in ErrorKinds /\ ~ev.fb /\ ev.closes = 1)
      /\ ev.fb => SomeProviderTook

\* C6: whenever the read failed or no provider took the content, the
\* status is an error message; the status is "Copied: <name>" only when a
\* provider took the content.
NoSilentFailure ==
    Accepted =>
      /\ (ev.read = "fail" \/ DispatchFailed) => status.kind \in ErrorKinds
      /\ status.kind = "Copied" => SomeProviderTook

\* C7: a confirm whose file read fails invokes no provider, leaves the
\* clipboard alone, emits no feedback pulse, reports the error in the
\* status and schedules the close.
ReadFailureSkipsDispatch ==
    [][(ev'.op = "confirm" /\ ev'.read = "fail") =>
         /\ ev'.wl = "none" /\ ev'.xclip = "none"
         /\ clipboard' = clipboard
         /\ highlight' = highlight /\ ~ev'.fb
         /\ status'.kind = "Error"
         /\ timers' = Append(timers, Timer("close", CloseMs))]_vars

ReadFailed == ev.op = "confirm" /\ ev.read = "fail" /\ timers # <<>>

\* C8: a confirm while no row is selected changes nothing: no file is
\* read, no provider is invoked, the status stays, no timer is scheduled.
ConfirmWithoutCursorIsNoOp ==
    [][(ev'.op = "confirm" /\ selection = None) =>
         /\ UNCHANGED progVars
         /\ ev'.read = "none" /\ ev'.wl = "none" /\ ev'.xclip = "none"
         /\ ~ev'.fb /\ ev'.closes = 0]_vars

ConfirmedOnEmptyList ==
    /\ ev.op = "confirm" /\ ~ev.hadSel
    /\ list_store # <<>> /\ filter_store = <<>>
    /\ loop = "running" /\ timers = <<>> /\ ~destroyed

\* C9: while browsing, a non-empty visible list always has a selected row
\* and that row is one of the visible rows, also right after load.
CursorValid ==
    (loop = "running" /\ confirms = 0 /\ filter_store # <<>>)
      => selection \in Visible(filter_store)

\* q, lower-cased, is an in-order subsequence of n, lower-cased
MatchesRef(q, n) ==
    \E f \in [1..Len(q) -> 1..Len(n)] :
       /\ \A i \in 1..Len(q) : LowerChar(q[i]) = LowerChar(n[f[i]])
       /\ \A i, j \in 1..Len(q) : i < j => f[i] < f[j]

\* C10: in every state the visible list is exactly the rows whose name
\* matches the current query, in list store order; with the empty query it
\* is the whole list store in its order.
VisibleSetInvariant ==
    /\ \A i \in 1..(Len(filter_store) - 1) : filter_store[i] < filter_store[i + 1]
    /\ Visible(filter_store) =
         {k \in 1..Len(list_store) : MatchesRef(search_text, list_store[k].name)}
    /\ search_text = <<>> => filter_store = [i \in 1..Len(list_store) |-> i]

FilteredToProperSublist ==
    /\ ev.op = "search" /\ search_text # <<>>
    /\ Len(filter_store) >= 2 /\ Len(filter_store) < Len(list_store)

\* C11: filter_function returns true exactly when the lower-cased search
\* text is an in-order, possibly non-contiguous, possibly empty subsequence
\* of the lower-cased name.
MatcherIsSubsequence ==
    matcher.done => (matcher.res <=> MatchesRef(matcher.q, matcher.n))

ScatteredMatchFound ==
    /\ matcher.done /\ matcher.res
    /\ matcher.q = <<"A", "b">> /\ matcher.n = <<"a", "_", "b">>

\* C12: after every change of the search text the selected row is the
\* first visible row, or no row when nothing is visible, whatever was
\* selected before.
CursorResetLaw ==
    ev.op = "search" =>
      IF filter_store = <<>>
      THEN selection = None
      ELSE /\ selection = filter_store[1]
           /\ \A k \in 1..Len(list_store) :
                MatchesRef(search_text, list_store[k].name) => selection <= k

CursorResetToLaterRow ==
    /\ ev.op = "search" /\ filter_store # <<>>
    /\ selection = filter_store[1] /\ selection > 1

\* C13: after every change of the search text the status reports the size
\* of the visible list: the number of loaded snippets for the empty text,
\* a "no matching" message for a text without results, the number of
\* matches otherwise.
StatusReportsVisibleSize ==
    ev.op = "search" =>
      /\ search_text = <<>> => status = Msg("Loaded", Len(list_store), <<>>)
      /\ (search_text # <<>> /\ filter_store = <<>>) =>
            status = Msg("No matching", 0, <<>>)
      /\ (search_text # <<>> /\ filter_store # <<>>) =>
            status = Msg("Found", Len(filter_store), <<>>)

\* C13 as amended: for a non-empty text the status is the "no matching"
\* message or the number of matches; for the empty text no size is
\* reported: the status stays, or is "Selected: <name>" of the first
\* visible row.
StatusAfterSearch ==
    [][ev'.op = "search" =>
         /\ (search_text' # <<>> /\ filter_store' = <<>>) =>
               status' = Msg("No matching", 0, <<>>)
         /\ (search_text' # <<>> /\ filter_store' # <<>>) =>
               status' = Msg("Found", Len(filter_store'), <<>>)
         /\ (search_text' = <<>> /\ filter_store' = <<>>) => status' = status
         /\ (search_text' = <<>> /\ filter_store' # <<>>) =>
               status' \in {status,
                            Msg("Selected", 0, list_store[filter_store'[1]].name)}]_vars

TextClearedAfterSearch ==
    /\ ev.op = "search" /\ search_text = <<>> /\ filter_store # <<>>
    /\ status.kind \in {"Found", "Selected"}

\* C14: Escape while browsing destroys the window at once: nothing is
\* read, no provider runs, no pulse is emitted, no timer is scheduled and
\* the status stays.
AbortFromBrowsing ==
    [][(ev'.op = "escape" /\ confirms = 0) =>
         /\ destroyed' /\ destroyCalls' = 1 /\ loop' = "quitting"
         /\ timers' = <<>> /\ clipboard' = <<>> /\ highlight' = 0
         /\ status' = status
         /\ ev'.read = "none" /\ ev'.wl = "none" /\ ev'.xclip = "none"
         /\ ~ev'.fb /\ ev'.closes = 0]_vars

AbortedWhileBrowsing ==
    ev.op = "escape" /\ confirms = 0 /\ destroyed /\ timers = <<>>

\* C15: when on_search_changed runs a second time in a row for the same
\* text, the visible list and the selected row are the same as after the
\* first time.
QueryIdempotent ==
    [][ev'.again => (filter_store' = filter_store /\ selection' = selection)]_vars

SameQueryIssuedTwice ==
    /\ ev.op = "search" /\ ev.again
    /\ search_text # <<>> /\ filter_store # <<>> /\ selection = filter_store[1]

\* C16: when the snippets directory does not exist, main prints the error
\* and returns a non-zero status; no window is constructed, no snippet is
\* loaded and the main loop is never entered.
BadRootIsFatal ==
    ~proc.isdir =>
      /\ ~proc.window /\ loop = "not started"
      /\ list_store = <<>> /\ status = NoStatus
      /\ proc.pc \in {"start", "returned"}
      /\ proc.pc = "returned" => (proc.exit # 0 /\ proc.printed)

ReturnedWithError ==
    proc.pc = "returned" /\ ~proc.isdir /\ proc.exit = 1 /\ proc.printed

\* C17: a successful dispatch schedules the 300ms revert timer and the
\* 600ms close timer in the same handler, the close timer is scheduled
\* with or without feedback, and when the window is closed by its timer
\* with no Escape before, no feedback pulse is still un-reverted.
FeedbackRevertsBeforeClose ==
    /\ (Accepted /\ SomeProviderTook) =>
          /\ Len(timers) >= 2
          /\ timers[Len(timers) - 1] = Timer("revert", FeedbackMs)
          /\ timers[Len(timers)] = Timer("close", CloseMs)
    /\ Accepted => ev.closes = 1
    /\ (ev.op = "close" /\ destroyCalls = 1) => highlight = 0

\* C18: while a close timer is pending, a further confirm reads no file,
\* invokes no provider, emits no feedback pulse and schedules no timer.
SecondConfirmIgnored ==
    [][(ev'.op = "confirm" /\ CloseTimers(timers) # {}) =>
         /\ ev'.read = "none" /\ ev'.wl = "none" /\ ev'.xclip = "none"
         /\ ~ev'.fb /\ ev'.closes = 0
         /\ timers' = timers /\ clipboard' = clipboard]_vars

\* C19: a selected row is always a visible row whose name matches the
\* current search text, and the content a provider takes on confirm is the
\* content of the file at the full path of that row.
DispatchedSnippetMatchesQuery ==
    /\ selection # None =>
          /\ selection \in Visible(filter_store)
          /\ MatchesRef(search_text, list_store[selection].name)
    /\ (ev.op = "confirm" /\ SomeProviderTook) =>
          /\ selection # None
          /\ clipboard = FileContent(list_store[selection].path)
          /\ status = Msg("Copied", 0, list_store[selection].name)

CopiedFilteredRow ==
    /\ ev.op = "confirm" /\ SomeProviderTook
    /\ search_text # <<>> /\ selection > 1
    /\ clipboard = Root \o list_store[selection].name

====
